---- MODULE Spec2Model ----
(***************************************************************************)
(* Vesting calculations of the cap-table workbook generator                *)
(* (src/index.js): calculateVestingDetails and the three helpers it calls, *)
(* get_vested_shares, get_next_vesting_date and get_next_vesting_amount,   *)
(* together with parseSchedule and the ambient clock (new Date()) that     *)
(* two of the helpers sample independently.                                *)
(*                                                                         *)
(* JavaScript values are records with a "kind" field so that NaN, null and *)
(* undefined are values of the model. Dates are a month index counted from *)
(* January of BaseYear (mi = (year - BaseYear) * 12 + month) and a day of  *)
(* the month; the time of day is not modelled: start dates are parsed from *)
(* date-only strings, so `start > now` holds exactly when start's calendar *)
(* day is after now's. Schedule texts are sequences of characters.         *)
(***************************************************************************)
EXTENDS Integers, Sequences, FiniteSets, TLC

\* ------------------------------------------------------------------ bounds
\* Last month index the ambient clock reaches.
MaxMonth == 50
\* How many times the clock may tick while one calculateVestingDetails call
\* is in progress.
MaxTicksPerCall == 1

\* ------------------------------------------------------- JavaScript values
Num(n) == [kind |-> "num", n |-> n]
NaN == [kind |-> "NaN", n |-> 0]
Undefined == [kind |-> "undefined", n |-> 0]

\* !v for a number-or-undefined value
Falsy(v) == v.kind # "num" \/ v.n = 0

IsNum(v) == v.kind = "num"

\* a < b as JavaScript evaluates it: false when either side is NaN
Less(a, b) == IsNum(a) /\ IsNum(b) /\ a.n < b.n

Date(mi, d) == [kind |-> "date", mi |-> mi, d |-> d]
Null == [kind |-> "null", mi |-> 0, d |-> 0]
InvalidDate == [kind |-> "invalid", mi |-> 0, d |-> 0]
NoDate == [kind |-> "undefined", mi |-> 0, d |-> 0]

IsDate(x) == x.kind = "date"

Str(chars) == [kind |-> "string", chars |-> chars]
NoSchedule == [kind |-> "undefined", chars |-> <<>>]
\* a truthy value that is not a string (e.g. the number 4)
NumberSchedule == [kind |-> "number", chars |-> <<>>]

\* ------------------------------------------------------------ Date methods
\* year of '1/1/2025', month index 0
BaseYear == 2025

getFullYear(date) == BaseYear + (date.mi \div 12)

getMonth(date) == date.mi % 12

IsLeap(y) == (y % 4 = 0 /\ y % 100 # 0) \/ y % 400 = 0

DaysInMonth(mi) ==
    LET mo == mi % 12
        y == BaseYear + (mi \div 12)
    IN IF mo = 1 THEN (IF IsLeap(y) THEN 29 ELSE 28)
       ELSE IF mo \in {3, 5, 8, 10} THEN 30 ELSE 31

\* date.setMonth(month): the month of date's year becomes `month` (which may
\* exceed 11), the day of the month is kept, and a day past the end of the
\* target month rolls over into the following month.
SetMonth(date, month) ==
    LET target == (date.mi - getMonth(date)) + month
    IN IF date.d > DaysInMonth(target)
       THEN Date(target + 1, date.d - DaysInMonth(target))
       ELSE Date(target, date.d)

\* a > b on two Date objects
DateGT(a, b) == a.mi > b.mi \/ (a.mi = b.mi /\ a.d > b.d)

\* new Date(startDate) for the three kinds of startDate input
NewDate(startDate) == IF IsDate(startDate) THEN startDate ELSE InvalidDate

\* (now.getFullYear() - start.getFullYear()) * 12 + now.getMonth() - start.getMonth()
MonthsElapsed(now, start) ==
    (getFullYear(now) - getFullYear(start)) * 12 + getMonth(now) - getMonth(start)

\* ------------------------------------------------------------ parseSchedule
UpperChars == <<"A","B","C","D","E","F","G","H","I","J","K","L","M",
                "N","O","P","Q","R","S","T","U","V","W","X","Y","Z">>
LowerChars == <<"a","b","c","d","e","f","g","h","i","j","k","l","m",
                "n","o","p","q","r","s","t","u","v","w","x","y","z">>

LowerChar(c) ==
    IF \E i \in 1..Len(UpperChars) : UpperChars[i] = c
    THEN LowerChars[CHOOSE i \in 1..Len(UpperChars) : UpperChars[i] = c]
    ELSE c

toLowerCase(s) == [i \in 1..Len(s) |-> LowerChar(s[i])]

Digits == <<"0","1","2","3","4","5","6","7","8","9">>

IsDigit(c) == \E i \in 1..Len(Digits) : Digits[i] = c

DigitVal(c) == (CHOOSE i \in 1..Len(Digits) : Digits[i] = c) - 1

\* \s of the regular expression
IsSpace(c) == c \in {" ", "\t", "\n"}

RECURSIVE parseInt(_)
parseInt(s) ==
    IF Len(s) = 0 THEN 0
    ELSE parseInt(SubSeq(s, 1, Len(s) - 1)) * 10 + DigitVal(s[Len(s)])

\* index of the first "/" of s at or after position from, Len(s) + 1 if none
SlashFrom(s, from) ==
    IF \E i \in from..Len(s) : s[i] = "/"
    THEN CHOOSE i \in from..Len(s) :
            s[i] = "/" /\ \A j \in from..(i - 1) : s[j] # "/"
    ELSE Len(s) + 1

\* schedule.split('/'): parts[0], and parts[1] when the text has a "/"
Part0(s) == SubSeq(s, 1, SlashFrom(s, 1) - 1)

HasPart1(s) == SlashFrom(s, 1) <= Len(s)

Part1(s) == SubSeq(s, SlashFrom(s, 1) + 1, SlashFrom(s, SlashFrom(s, 1) + 1) - 1)

\* last index of the run of characters satisfying the class that starts at i
\* (i - 1 when the run is empty)
RECURSIVE RunEnd(_, _, _)
RunEnd(s, i, digits) ==
    IF i <= Len(s) /\ (IF digits THEN IsDigit(s[i]) ELSE IsSpace(s[i]))
    THEN RunEnd(s, i + 1, digits)
    ELSE i - 1

\* /(\d+)\s*year/ anchored at position i of s
MatchesAt(s, i) ==
    /\ i <= Len(s)
    /\ IsDigit(s[i])
    /\ LET k == RunEnd(s, RunEnd(s, i, TRUE) + 1, FALSE) + 1
       IN /\ k + 3 <= Len(s)
          /\ SubSeq(s, k, k + 3) = <<"y", "e", "a", "r">>

\* s.match(/(\d+)\s*year/): found, and the text of capture group 1
Match(s) ==
    IF \E i \in 1..Len(s) : MatchesAt(s, i)
    THEN LET i == CHOOSE i \in 1..Len(s) :
                     MatchesAt(s, i) /\ \A j \in 1..(i - 1) : ~MatchesAt(s, j)
         IN [found |-> TRUE, group1 |-> SubSeq(s, i, RunEnd(s, i, TRUE))]
    ELSE [found |-> FALSE, group1 |-> <<>>]

DefaultDuration == 48
DefaultCliff == 12

defaultValues == <<DefaultDuration, DefaultCliff>>

\* the body of parseSchedule; the result is <<duration, cliff>> in months.
\* No statement of the try block throws for a string, so the catch branch
\* is never taken.
parseScheduleBody(schedule) ==
    IF schedule.kind # "string" \/ Len(schedule.chars) = 0
    THEN defaultValues
    ELSE LET lower == toLowerCase(schedule.chars)
             durationMatch == Match(Part0(lower))
             cliffMatch == IF HasPart1(lower) THEN Match(Part1(lower))
                           ELSE [found |-> FALSE, group1 |-> <<>>]
             duration == (IF durationMatch.found THEN parseInt(durationMatch.group1)
                          ELSE 4) * 12
             cliff == (IF cliffMatch.found THEN parseInt(cliffMatch.group1)
                       ELSE 1) * 12
         IN <<duration, cliff>>

\* the schedule texts of the model
Chars_4y1yc == <<"4"," ","y","e","a","r"," ","/"," ","1"," ","y","e","a","r",
                 " ","c","l","i","f","f">>
Chars_2years == <<"2"," ","y","e","a","r","s">>
Chars_garbage == <<"g","a","r","b","a","g","e">>
Chars_1y2yc == <<"1"," ","y","e","a","r"," ","/"," ","2"," ","y","e","a","r",
                 " ","c","l","i","f","f">>
Chars_0y0yc == <<"0"," ","y","e","a","r"," ","/"," ","0"," ","y","e","a","r",
                 " ","c","l","i","f","f">>
Chars_g2yc == <<"g","a","r","b","a","g","e"," ","/"," ","2"," ","y","e","a","r",
                " ","c","l","i","f","f">>
Chars_upper == <<"1","Y","E","A","R","S","/","1"," "," ","Y","e","a","r">>
Chars_quarterly == <<"q","u","a","r","t","e","r","l","y">>

\* every value passed as a schedule
ScheduleValues ==
    {Str(Chars_4y1yc), Str(Chars_2years), Str(Chars_garbage), Str(Chars_1y2yc),
     Str(Chars_0y0yc), Str(Chars_g2yc), Str(Chars_upper), Str(Chars_quarterly),
     Str(<<>>), NoSchedule, NumberSchedule}

\* parseSchedule is a pure function: its results are tabulated once
parseScheduleTable == [s \in ScheduleValues |-> parseScheduleBody(s)]

parseSchedule(schedule) == parseScheduleTable[schedule]

\* a parameter declared `schedule = 'quarterly'`
DefaultParam(schedule) ==
    IF schedule.kind = "undefined" THEN Str(Chars_quarterly) ELSE schedule

\* !schedule
ScheduleFalsy(schedule) ==
    schedule.kind = "undefined" \/ (schedule.kind = "string" /\ Len(schedule.chars) = 0)

\* --------------------------------------------------------- the calculations
Return(v) == [threw |-> FALSE, error |-> "", value |-> v]
Throw(msg, v) == [threw |-> TRUE, error |-> msg, value |-> v]

\* Math.floor(totalShares * Math.min(1, monthsElapsed / duration)) for
\* integer arguments. x / 0 is Infinity, -Infinity or NaN; Math.min(1, NaN)
\* is NaN and Math.min(1, Infinity) is 1. For the share counts and durations
\* of this model the double-precision product totalShares * (monthsElapsed /
\* duration) floors to the same integer as the exact quotient below.
VestedAmount(totalShares, monthsElapsed, duration) ==
    IF duration = 0
    THEN IF monthsElapsed = 0 THEN NaN
         ELSE IF monthsElapsed > 0 THEN Num(totalShares)
         ELSE NaN \* totalShares * -Infinity: not a finite number
    ELSE IF monthsElapsed >= duration THEN Num(totalShares)
    ELSE Num((totalShares * monthsElapsed) \div duration)

\* faulty variant: the cliff test of line 184 is missing
get_vested_shares_no_cliff(totalShares, startDate, schedule, now) ==
    IF Falsy(totalShares) \/ ScheduleFalsy(schedule)
    THEN Throw("Missing required parameters", Undefined)
    ELSE IF ~IsDate(startDate)
    THEN Throw("Invalid start date", Undefined)
    ELSE LET monthsElapsed == MonthsElapsed(now, startDate)
             duration == parseSchedule(schedule)[1]
         IN Return(VestedAmount(totalShares.n, monthsElapsed, duration))

\* faulty variant: the cliff test of line 184 is inverted
get_vested_shares_cliff_inverted(totalShares, startDate, schedule, now) ==
    IF Falsy(totalShares) \/ ScheduleFalsy(schedule)
    THEN Throw("Missing required parameters", Undefined)
    ELSE IF ~IsDate(startDate)
    THEN Throw("Invalid start date", Undefined)
    ELSE LET monthsElapsed == MonthsElapsed(now, startDate)
             duration == parseSchedule(schedule)[1]
             cliff == parseSchedule(schedule)[2]
         IN IF monthsElapsed >= cliff
            THEN Return(Num(0))
            ELSE Return(VestedAmount(totalShares.n, monthsElapsed, duration))

\* `now` is the value of new Date() at line 178. startDate is the Date
\* object the caller built, so !startDate is false.
get_vested_shares(totalShares, startDate, schedule, now) ==
    IF Falsy(totalShares) \/ ScheduleFalsy(schedule)
    THEN Throw("Missing required parameters", Undefined)
    ELSE IF ~IsDate(startDate)
    THEN Throw("Invalid start date", Undefined)
    ELSE LET monthsElapsed == MonthsElapsed(now, startDate)
             duration == parseSchedule(schedule)[1]
             cliff == parseSchedule(schedule)[2]
         IN IF monthsElapsed < cliff
            THEN Return(Num(0))
            ELSE Return(VestedAmount(totalShares.n, monthsElapsed, duration))

\* `now` is the value of new Date() at line 236
get_next_vesting_date(startDate, scheduleArg, now) ==
    LET schedule == DefaultParam(scheduleArg)
    IN IF ~IsDate(startDate)
       THEN Throw("Invalid start date", NoDate)
       ELSE IF DateGT(startDate, now)
       THEN Return(startDate)
       ELSE LET duration == parseSchedule(schedule)[1]
                cliff == parseSchedule(schedule)[2]
                monthsElapsed == MonthsElapsed(now, startDate)
                quartersPassed == monthsElapsed \div 3
            IN IF monthsElapsed < cliff
               THEN Return(SetMonth(startDate, getMonth(startDate) + cliff))
               ELSE IF monthsElapsed >= duration
               THEN Return(Null)
               ELSE Return(SetMonth(startDate,
                                    getMonth(startDate) + (quartersPassed + 1) * 3))

\* faulty variant: the duration is divided into years, not quarters
get_next_vesting_amount_per_year(totalShares, scheduleArg) ==
    LET schedule == DefaultParam(scheduleArg)
    IN IF Falsy(totalShares)
       THEN Throw("Invalid total shares amount", Undefined)
       ELSE LET duration == parseSchedule(schedule)[1]
                yearsTotal == duration \div 12
            IN IF yearsTotal <= 0
               THEN Return(Num(0))
               ELSE Return(Num(totalShares.n \div yearsTotal))

get_next_vesting_amount(totalShares, scheduleArg) ==
    LET schedule == DefaultParam(scheduleArg)
    IN IF Falsy(totalShares)
       THEN Throw("Invalid total shares amount", Undefined)
       ELSE LET duration == parseSchedule(schedule)[1]
                quartersTotal == duration \div 3
            IN IF quartersTotal <= 0
               THEN Return(Num(0))
               ELSE Return(Num(totalShares.n \div quartersTotal))

\* the spreadsheet formula =D2-J2 of the 'Unvested Shares' column
Unvested(totalShares, vestedShares) ==
    IF IsNum(totalShares) /\ IsNum(vestedShares)
    THEN Num(totalShares.n - vestedShares.n)
    ELSE NaN

\* ------------------------------------------------------------ state machine
VARIABLES
    sh,        \* the shareholder row being processed: shares, startDate, schedule
    clock,     \* the ambient clock: what new Date() returns
    pc,        \* position in calculateVestingDetails: "idle", "l39", "l40", "l41", "threw"
    start,     \* calculateVestingDetails' local `start`
    vested,    \* value returned by get_vested_shares at line 39
    nowV,      \* get_vested_shares' local `now`
    nextDate,  \* value returned by get_next_vesting_date at line 40
    nowD,      \* get_next_vesting_date's local `now`
    facts,     \* vestingCalculations[sh.name], the last returned record
    error,     \* message of the Error that escaped, "" if none
    ticks      \* clock ticks since the call in progress began

vars == <<sh, clock, pc, start, vested, nowV, nextDate, nowD, facts, error, ticks>>

ShareValues == {Undefined, Num(0), Num(-4), Num(7), Num(1000000)}

\* '1/1/2025', '1/31/2025' and '3/1/2025', a missing and an unparsable date
StartDates == {Date(0, 1), Date(0, 31), Date(2, 1), NoDate, InvalidDate}

\* the texts a row can carry ('quarterly' is only a parameter default)
Schedules == ScheduleValues \ {Str(Chars_quarterly)}

Shareholders == [shares : ShareValues, startDate : StartDates, schedule : Schedules]

\* days of the month at which the clock is observed
ClockDays == {1, 20}

NoFacts == [kind |-> "none", vested |-> Undefined, nextDate |-> NoDate,
            nextAmount |-> Undefined]

Facts(v, d, a) == [kind |-> "facts", vested |-> v, nextDate |-> d, nextAmount |-> a]

Init ==
    /\ sh \in Shareholders
    /\ clock = Date(0, 1)
    /\ pc = "idle"
    /\ start = NoDate
    /\ vested = Undefined
    /\ nowV = NoDate
    /\ nextDate = NoDate
    /\ nowD = NoDate
    /\ facts = NoFacts
    /\ error = ""
    /\ ticks = 0

\* the environment: time passes, also while a call is in progress
Tick ==
    /\ pc # "idle" => ticks < MaxTicksPerCall
    /\ \/ /\ clock.d = 1
          /\ clock' = Date(clock.mi, 20)
       \/ /\ clock.d = 20
          /\ clock.mi < MaxMonth
          /\ clock' = Date(clock.mi + 1, 1)
    /\ ticks' = IF pc = "idle" THEN 0 ELSE ticks + 1
    /\ UNCHANGED <<sh, pc, start, vested, nowV, nextDate, nowD, facts, error>>

\* !startDate
StartDateFalsy(startDate) == startDate.kind = "undefined"

\* calculateVestingDetails, lines 33-36, for a start date that is missing or
\* does not parse: the zero record is returned
CallWithoutStartDate ==
    /\ pc = "idle"
    /\ StartDateFalsy(sh.startDate) \/ ~IsDate(NewDate(sh.startDate))
    /\ facts' = Facts(Num(0), Null, Num(0))
    /\ ticks' = 0
    /\ UNCHANGED <<sh, clock, pc, start, vested, nowV, nextDate, nowD, error>>

\* calculateVestingDetails, lines 33-36, for a start date that parses
Call ==
    /\ pc = "idle"
    /\ ~StartDateFalsy(sh.startDate)
    /\ IsDate(NewDate(sh.startDate))
    /\ start' = NewDate(sh.startDate)
    /\ pc' = "l39"
    /\ ticks' = 0
    /\ UNCHANGED <<sh, clock, vested, nowV, nextDate, nowD, facts, error>>

\* line 39: vested: get_vested_shares(shares, start, schedule)
VestedStep ==
    /\ pc = "l39"
    /\ LET r == get_vested_shares(sh.shares, start, sh.schedule, clock)
       IN IF r.threw
          THEN /\ pc' = "threw"
               /\ error' = r.error
               /\ UNCHANGED <<vested, nowV>>
          ELSE /\ pc' = "l40"
               /\ vested' = r.value
               /\ nowV' = clock
               /\ UNCHANGED error
    /\ UNCHANGED <<sh, clock, start, nextDate, nowD, facts, ticks>>

\* line 40: nextDate: get_next_vesting_date(start, schedule)
NextDateStep ==
    /\ pc = "l40"
    /\ LET r == get_next_vesting_date(start, sh.schedule, clock)
       IN IF r.threw
          THEN /\ pc' = "threw"
               /\ error' = r.error
               /\ UNCHANGED <<nextDate, nowD>>
          ELSE /\ pc' = "l41"
               /\ nextDate' = r.value
               /\ nowD' = clock
               /\ UNCHANGED error
    /\ UNCHANGED <<sh, clock, start, vested, nowV, facts, ticks>>

\* line 41: nextAmount: get_next_vesting_amount(shares, schedule), and the
\* return of the record
NextAmountStep ==
    /\ pc = "l41"
    /\ LET r == get_next_vesting_amount(sh.shares, sh.schedule)
       IN IF r.threw
          THEN /\ pc' = "threw"
               /\ error' = r.error
               /\ UNCHANGED <<facts, start, vested, nowV, nextDate, nowD>>
          ELSE /\ pc' = "idle"
               /\ facts' = Facts(vested, nextDate, r.value)
               /\ start' = NoDate
               /\ vested' = Undefined
               /\ nowV' = NoDate
               /\ nextDate' = NoDate
               /\ nowD' = NoDate
               /\ UNCHANGED error
    /\ UNCHANGED <<sh, clock, ticks>>

Next ==
    \/ Tick
    \/ CallWithoutStartDate
    \/ Call
    \/ VestedStep
    \/ NextDateStep
    \/ NextAmountStep

Spec == Init /\ [][Next]_vars

\* ------------------------------------------------------------------ claims
\* quantities the claims speak of
Duration == parseSchedule(sh.schedule)[1]
Cliff == parseSchedule(sh.schedule)[2]

\* get_vested_shares has returned in the call in progress
VestedReturned == pc \in {"l40", "l41"}

\* get_next_vesting_date has returned in the call in progress
NextDateReturned == pc = "l41"

\* totalShares is a positive integer, as the Grant of the data model requires
PositiveShares == IsNum(sh.shares) /\ sh.shares.n > 0

ElapsedV == MonthsElapsed(nowV, start)
ElapsedD == MonthsElapsed(nowD, start)

C2_FullVesting ==
    /\ (VestedReturned /\ PositiveShares /\ ElapsedV >= Duration) => vested = sh.shares
    /\ (NextDateReturned /\ PositiveShares /\ ElapsedD >= Duration) => nextDate = Null

\* C3. Share conservation and bounds: for totalShares > 0, vestedShares is an
\* integer with 0 <= vestedShares <= totalShares, and the unvested column is
\* totalShares - vestedShares, which is not negative.
C3_ShareBounds ==
    (VestedReturned /\ PositiveShares) =>
        /\ IsNum(vested)
        /\ 0 <= vested.n
        /\ vested.n <= sh.shares.n
        /\ Unvested(sh.shares, vested) = Num(sh.shares.n - vested.n)
        /\ Unvested(sh.shares, vested).n >= 0

\* C4. Monotonicity over time: for a fixed grant with totalShares > 0, the
\* vested-shares result of a later evaluation is never less than the result
\* an earlier evaluation returned, and once an evaluation has returned
\* totalShares every later one returns totalShares. (facts.vested is the
\* result the previous call returned, vested that of the call in progress.)
C4_Monotone ==
    (VestedReturned /\ PositiveShares /\ facts.kind = "facts") =>
        /\ ~Less(vested, facts.vested)
        /\ facts.vested = sh.shares => vested = sh.shares

\* a later evaluation returned strictly more than an earlier one, which had
\* itself vested something
C4_Witness ==
    /\ pc = "l40"
    /\ PositiveShares
    /\ facts.kind = "facts"
    /\ Less(Num(0), facts.vested)
    /\ Less(facts.vested, vested)
    /\ Less(vested, sh.shares)

\* C5. One reference date: within one evaluation the vested amount and the
\* next vesting date are computed against the same month.
C5_SameReferenceMonth ==
    NextDateReturned => ElapsedV = ElapsedD

\* totalShares missing, zero or negative, or a start date that is missing or
\* does not resolve to a calendar date
InvalidStructural ==
    \/ ~IsNum(sh.shares)
    \/ sh.shares.n <= 0
    \/ ~IsDate(NewDate(sh.startDate))

\* C6. Fail-fast: with an invalid structural argument the computation never
\* returns vesting facts for the grant.
C6_FailFast ==
    InvalidStructural => facts.kind = "none"

\* the schedule is absent, empty, not a string, or its duration segment or a
\* present cliff segment holds no '<integer> year'
FallbackSchedule ==
    \/ sh.schedule.kind # "string"
    \/ Len(sh.schedule.chars) = 0
    \/ ~Match(Part0(toLowerCase(sh.schedule.chars))).found
    \/ /\ HasPart1(toLowerCase(sh.schedule.chars))
       /\ ~Match(Part1(toLowerCase(sh.schedule.chars))).found

\* C7. Lenient fallback: for such a schedule the schedule used is exactly
\* (48, 12), and a grant whose other arguments are valid is never failed
\* because of the schedule text.
C7_LenientFallback ==
    FallbackSchedule =>
        /\ VestedReturned => <<Duration, Cliff>> = <<48, 12>>
        /\ ~InvalidStructural => pc # "threw"

\* C8. Well-formedness: the pair the vesting calculations work with has a
\* positive durationMonths and 0 <= cliffMonths <= durationMonths.
C8_WellFormedSchedule ==
    VestedReturned => (Duration > 0 /\ 0 <= Cliff /\ Cliff <= Duration)

\* whole months from start to the returned date
Offset == MonthsElapsed(nextDate, start)

\* C9. Next-vesting-date rule in whole months after start: start itself when
\* start > now; else offset cliffMonths before the cliff; else null from
\* durationMonths on; else offset (floor(monthsElapsed / 3) + 1) * 3. A date
\* returned for a started grant has an offset that is a multiple of 3,
\* greater than monthsElapsed and at most durationMonths.
C9_NextDateRule ==
    (NextDateReturned /\ PositiveShares) =>
        /\ IF DateGT(start, nowD) THEN nextDate = start
           ELSE IF ElapsedD < Cliff THEN IsDate(nextDate) /\ Offset = Cliff
           ELSE IF ElapsedD >= Duration THEN nextDate = Null
           ELSE IsDate(nextDate) /\ Offset = ((ElapsedD \div 3) + 1) * 3
        /\ (IsDate(nextDate) /\ ~DateGT(start, nowD)) =>
              /\ Offset % 3 = 0
              /\ Offset > ElapsedD
              /\ Offset <= Duration

VestedAt(date) == get_vested_shares(sh.shares, start, sh.schedule, date).value

\* the amount the call in progress reports as nextAmount (line 41)
ReportedNextAmount == get_next_vesting_amount(sh.shares, sh.schedule).value

\* C11. Next amount matches the next event: when vested shares and the next
\* vesting date D were computed against the same reference date and D is a
\* date, the vested shares at D exceed the vested shares now by exactly the
\* reported next vesting amount, and the vested shares are unchanged at
\* every month strictly between now and D.
C11_NextAmountMatchesEvent ==
    (NextDateReturned /\ PositiveShares /\ nowV = nowD /\ IsDate(nextDate)) =>
        /\ IsNum(vested)
        /\ IsNum(VestedAt(nextDate))
        /\ VestedAt(nextDate).n - vested.n = ReportedNextAmount.n
        /\ \A mi \in (nowV.mi + 1)..(nextDate.mi - 1) : VestedAt(Date(mi, 1)) = vested

====
